---- MODULE Spec2Model ----
(***************************************************************************)
(* Model of the FastAPI demo service (project2-python-fastapi/app).        *)
(*                                                                         *)
(* The process imports app.routers.health (which captures startup_time    *)
(* from the wall clock), registers three routes and then serves requests.  *)
(* Every handler is an `async def` without an await, so a handler body     *)
(* runs to completion on the event loop; requests overlap between being    *)
(* routed and being handled.                                               *)
(*                                                                         *)
(* A clock value is a pair [sec, us]: whole seconds since                  *)
(* 2024-01-01T00:00:00 UTC and microseconds within the second.  The wall   *)
(* clock (time.time(), datetime.utcnow()) is owned by the operating        *)
(* system: it normally moves forward and can be set back.                  *)
(***************************************************************************)
EXTENDS Integers, Sequences, FiniteSets, TLC

\* ------------------------------------------------------------------ bounds
MaxReq == 2          \* number of requests in one run

\* seconds the clock takes: 2024-01-01T23:59:59 and 2024-01-02T00:00:00
SecSamples == {86399, 86400}

\* microsecond parts the clock takes inside a second
MicroSamples == {0, 2, 100000}

ClockValues == [sec : SecSamples, us : MicroSamples]

NoTime == [sec |-> 0 - 1, us |-> 0]     \* "no clock value read"

\* a < b and a <= b on clock values
TimeLess(a, b) == a.sec < b.sec \/ (a.sec = b.sec /\ a.us < b.us)
TimeLeq(a, b) == a = b \/ TimeLess(a, b)

\* a - b in microseconds (float subtraction of two nearby clock reads is exact)
TimeDiff(a, b) == (a.sec - b.sec) * 1000000 + (a.us - b.us)

VARIABLES clock, loaded, startup_time, req

vars == <<clock, loaded, startup_time, req>>

Slots == 1..MaxReq

\* ------------------------------------------------------------ text helpers
\* Strings that are compared for order are sequences of ASCII codes.
Digit(d) == 48 + d

RECURSIVE Pad(_, _)
\* "%0<w>d" % n
Pad(n, w) == IF w = 0 THEN <<>> ELSE Append(Pad(n \div 10, w - 1), Digit(n % 10))

\* str <= str in Python: lexicographic by code point, a prefix is smaller
StrLeq(a, b) ==
    \/ /\ Len(a) <= Len(b)
       /\ \A k \in 1..Len(a) : a[k] = b[k]
    \/ \E k \in 1..Len(a) :
          /\ k <= Len(b)
          /\ \A j \in 1..(k - 1) : a[j] = b[j]
          /\ a[k] < b[k]

\* isoformat with the microseconds written unpadded ("%d" for "%06d")
isoformat_unpadded(t) ==
    LET day == t.sec \div 86400
        sod == t.sec % 86400
        us  == t.us
        hh  == sod \div 3600
        mm  == (sod % 3600) \div 60
        ss  == sod % 60
        RECURSIVE Dec(_)
        Dec(n) == IF n < 10 THEN <<Digit(n)>> ELSE Append(Dec(n \div 10), Digit(n % 10))
        date == Pad(2024, 4) \o <<45>> \o Pad(1, 2) \o <<45>> \o Pad(day + 1, 2)
        time == Pad(hh, 2) \o <<58>> \o Pad(mm, 2) \o <<58>> \o Pad(ss, 2)
    IN  date \o <<84>> \o time \o (IF us = 0 THEN <<>> ELSE <<46>> \o Dec(us))

\* datetime.isoformat(): YYYY-MM-DDTHH:MM:SS, and .ffffff only when the
\* microsecond part is not zero.  The window lies inside January 2024.
isoformat(t) ==
    LET day == t.sec \div 86400
        sod == t.sec % 86400
        us  == t.us
        hh  == sod \div 3600
        mm  == (sod % 3600) \div 60
        ss  == sod % 60
        date == Pad(2024, 4) \o <<45>> \o Pad(1, 2) \o <<45>> \o Pad(day + 1, 2)
        time == Pad(hh, 2) \o <<58>> \o Pad(mm, 2) \o <<58>> \o Pad(ss, 2)
    IN  date \o <<84>> \o time \o (IF us = 0 THEN <<>> ELSE <<46>> \o Pad(us, 6))

\* --------------------------------------------------------- response shapes
\* HealthResponse serialised without its falsy fields: uptime 0.0 is dropped
HealthResponse_exclude_falsy(status, version, uptime) ==
    IF uptime = 0 THEN [status |-> status, version |-> version]
    ELSE [status |-> status, version |-> version, uptime |-> uptime]

HealthResponse(status, version, uptime) ==
    [status |-> status, version |-> version, uptime |-> uptime]

MessageResponse(message, version, timestamp) ==
    [message |-> message, version |-> version, timestamp |-> timestamp]

NoBody == [none |-> TRUE]

\* fields of the declared response_model of each endpoint; info has none
response_model ==
    [root         |-> {"message", "version", "timestamp"},
     health_check |-> {"status", "version", "uptime"},
     info         |-> {}]

\* ------------------------------------------------------------------ routing
\* APIRouter() of health.py with its one route
router == << [path |-> "/health", method |-> "GET", endpoint |-> "health_check"] >>

\* app.include_router(r, prefix): every route of r under prefix
include_router(r, prefix) ==
    [k \in 1..Len(r) |-> [r[k] EXCEPT !.path = prefix \o r[k].path]]

\* the route table with the health router mounted under the prefix /api
routes_prefixed ==
    include_router(router, "/api")
    \o << [path |-> "/",         method |-> "GET", endpoint |-> "root"],
          [path |-> "/api/info", method |-> "GET", endpoint |-> "info"] >>

\* the route table of app, in registration order
routes ==
    include_router(router, "")
    \o << [path |-> "/",         method |-> "GET", endpoint |-> "root"],
          [path |-> "/api/info", method |-> "GET", endpoint |-> "info"] >>

FullMatches(m, p) == { k \in 1..Len(routes) : routes[k].path = p /\ routes[k].method = m }
PathMatches(p)    == { k \in 1..Len(routes) : routes[k].path = p }

Min(S) == CHOOSE x \in S : \A y \in S : x <= y

\* the first full match handles the request; a path that matches with another
\* method is answered 405 and an unmatched path 404 by the framework
Route(m, p) ==
    IF FullMatches(m, p) # {} THEN routes[Min(FullMatches(m, p))].endpoint
    ELSE IF PathMatches(p) # {} THEN "method_not_allowed"
    ELSE "not_found"

\* requests the clients send
Requests ==
    { <<"GET", "/">>, <<"GET", "/api/info">>, <<"GET", "/health">>,
      <<"GET", "/nope">>, <<"POST", "/health">> }

\* --------------------------------------------------------------------- state
Idle ==
    [pc |-> "idle", method |-> "", path |-> "", handler |-> "",
     now |-> NoTime, result |-> NoBody, status |-> 0, after |-> {}]

Init ==
    /\ clock \in ClockValues
    /\ loaded = FALSE
    /\ startup_time = NoTime
    /\ req = [i \in Slots |-> Idle]

\* ---------------------------------------------------------------- the clock
\* time passes
Tick ==
    /\ \E t \in ClockValues : TimeLess(clock, t) /\ clock' = t
    /\ UNCHANGED <<loaded, startup_time, req>>

\* the system clock is set back (settimeofday, NTP step)
SetBack ==
    /\ \E t \in ClockValues : TimeLess(t, clock) /\ clock' = t
    /\ UNCHANGED <<loaded, startup_time, req>>

\* --------------------------------------------------------------- the program
\* import of app.main: health.py runs `startup_time = time.time()`
Load ==
    /\ ~loaded
    /\ loaded' = TRUE
    /\ startup_time' = clock
    /\ UNCHANGED <<clock, req>>

\* a request arrives and is routed; `after` is the set of requests that were
\* already answered when this one arrived
Receive(i, m, p) ==
    /\ loaded
    /\ req[i].pc = "idle"
    /\ \A j \in Slots : j < i => req[j].pc # "idle"
    /\ req' = [req EXCEPT ![i] =
                 [Idle EXCEPT !.pc = "routed", !.method = m, !.path = p,
                              !.handler = Route(m, p),
                              !.after = { j \in Slots : req[j].pc = "done" }]]
    /\ UNCHANGED <<clock, loaded, startup_time>>

\* serialisation against the endpoint's response_model: 200, or 500 when the
\* returned value does not have the declared fields
serialize_status(h, result) ==
    IF response_model[h] = {} \/ DOMAIN result = response_model[h] THEN 200 ELSE 500

\* one response object per handler shared by all its requests: answering a
\* request rewrites the responses already given by the same handler
Respond_shared(i, h, t, result) ==
    req' = [k \in Slots |->
              IF k = i
              THEN [req[k] EXCEPT !.pc = "done", !.now = t, !.result = result,
                                  !.status = serialize_status(h, result)]
              ELSE IF req[k].pc = "done" /\ req[k].handler = h
                   THEN [req[k] EXCEPT !.result = result]
                   ELSE req[k]]

\* the handler ran and its return value was serialised and sent
Respond(i, h, t, result) ==
    req' = [req EXCEPT ![i].pc = "done", ![i].now = t, ![i].result = result,
                       ![i].status = serialize_status(h, result)]

\* root with the message stripped of its trailing space
root_trimmed(i) ==
    /\ req[i].pc = "routed"
    /\ req[i].handler = "root"
    /\ Respond(i, "root", clock,
               MessageResponse("Welcome to FastAPI with Alpine Docker!", "1.0.0",
                               isoformat(clock)))
    /\ UNCHANGED <<clock, loaded, startup_time>>

root(i) ==
    /\ req[i].pc = "routed"
    /\ req[i].handler = "root"
    /\ Respond(i, "root", clock,
               MessageResponse("Welcome to FastAPI with Alpine Docker! ", "1.0.0",
                               isoformat(clock)))
    /\ UNCHANGED <<clock, loaded, startup_time>>

\* info with python_version taken from the running interpreter
info_result_runtime ==
    [name |-> "FastAPI Demo API", version |-> "1.0.0", framework |-> "FastAPI",
     python_version |-> "3.12", server |-> "uvicorn",
     base_image |-> "python:3.11-alpine", docs |-> "/docs", redoc |-> "/redoc"]

info_result ==
    [name |-> "FastAPI Demo API", version |-> "1.0.0", framework |-> "FastAPI",
     python_version |-> "3.11", server |-> "uvicorn",
     base_image |-> "python:3.11-alpine", docs |-> "/docs", redoc |-> "/redoc"]

info(i) ==
    /\ req[i].pc = "routed"
    /\ req[i].handler = "info"
    /\ Respond(i, "info", NoTime, info_result)
    /\ UNCHANGED <<clock, loaded, startup_time>>

\* health_check that reports "unhealthy" when the computed uptime is negative
health_check_probing(i) ==
    /\ req[i].pc = "routed"
    /\ req[i].handler = "health_check"
    /\ Respond(i, "health_check", clock,
               HealthResponse(IF TimeDiff(clock, startup_time) < 0
                              THEN "unhealthy" ELSE "healthy",
                              "1.0.0", TimeDiff(clock, startup_time)))
    /\ UNCHANGED <<clock, loaded, startup_time>>

\* health_check that restarts the measurement: it stores the clock it read
\* in startup_time
health_check_resets(i) ==
    /\ req[i].pc = "routed"
    /\ req[i].handler = "health_check"
    /\ Respond(i, "health_check", clock,
               HealthResponse("healthy", "1.0.0", TimeDiff(clock, startup_time)))
    /\ startup_time' = clock
    /\ UNCHANGED <<clock, loaded>>

\* health_check that reports whole seconds: int(time.time()) - int(startup_time)
health_check_truncated(i) ==
    /\ req[i].pc = "routed"
    /\ req[i].handler = "health_check"
    /\ Respond(i, "health_check", clock,
               HealthResponse("healthy", "1.0.0",
                              (clock.sec - startup_time.sec) * 1000000))
    /\ UNCHANGED <<clock, loaded, startup_time>>

health_check(i) ==
    /\ req[i].pc = "routed"
    /\ req[i].handler = "health_check"
    /\ Respond(i, "health_check", clock,
               HealthResponse("healthy", "1.0.0", TimeDiff(clock, startup_time)))
    /\ UNCHANGED <<clock, loaded, startup_time>>

\* the framework's answer to a request no route handles
default_response(i) ==
    /\ req[i].pc = "routed"
    /\ req[i].handler \in {"not_found", "method_not_allowed"}
    /\ req' = [req EXCEPT ![i].pc = "done",
                          ![i].status = IF req[i].handler = "not_found" THEN 404 ELSE 405,
                          ![i].result = [detail |-> IF req[i].handler = "not_found"
                                                    THEN "Not Found"
                                                    ELSE "Method Not Allowed"]]
    /\ UNCHANGED <<clock, loaded, startup_time>>

Next ==
    \/ Tick
    \/ SetBack
    \/ Load
    \/ \E i \in Slots : \E r \in Requests : Receive(i, r[1], r[2])
    \/ \E i \in Slots : root(i)
    \/ \E i \in Slots : info(i)
    \/ \E i \in Slots : health_check(i)
    \/ \E i \in Slots : default_response(i)

Spec == Init /\ [][Next]_vars

\* ------------------------------------------------------------------- claims
Done(i) == req[i].pc = "done"

\* request i was answered by handler h
Handled(i, h) == Done(i) /\ req[i].handler = h

\* request i was answered before request j arrived: the two are sequential
Before(i, j) == i \in req[j].after

\* request i is a GET of path p that has been answered
Answered(i, p) == Done(i) /\ req[i].method = "GET" /\ req[i].path = p

\* C1: over GET /health calls handled one after another, every uptime is >= 0
\* and the uptime of a later call is >= the uptime of an earlier one.
C1_UptimeNonNegativeNonDecreasing ==
    \A i \in Slots : Handled(i, "health_check") =>
        /\ req[i].result.uptime >= 0
        /\ \A j \in Slots : (Handled(j, "health_check") /\ Before(i, j)) =>
              req[j].result.uptime >= req[i].result.uptime

\* C2 as stated: over GET / calls handled one after another, the timestamp of
\* a later response is >= the timestamp of an earlier one.
C2_TimestampNonDecreasing ==
    \A i, j \in Slots : (Handled(i, "root") /\ Handled(j, "root") /\ Before(i, j)) =>
        StrLeq(req[i].result.timestamp, req[j].result.timestamp)

\* C2 amended: each GET / timestamp is the ISO-8601 rendering of the wall
\* clock read at that call, and over calls handled one after another the later
\* timestamp is >= the earlier one whenever the clock read at the later call
\* is >= the clock read at the earlier call.
C2_TimestampFollowsClock ==
    \A i, j \in Slots :
        (Handled(i, "root") /\ Handled(j, "root") /\ Before(i, j)
            /\ TimeLeq(req[i].now, req[j].now)) =>
        StrLeq(req[i].result.timestamp, req[j].result.timestamp)

\* two sequential GET / calls, the clock having advanced in between, one read
\* on a whole second (no fraction rendered) and one not
C2_Witness ==
    \E i, j \in Slots :
        /\ Handled(i, "root") /\ Handled(j, "root") /\ Before(i, j)
        /\ TimeLess(req[i].now, req[j].now)
        /\ Len(req[i].result.timestamp) # Len(req[j].result.timestamp)

\* C3: every answered GET /health has status "healthy" and version "1.0.0".
C3_HealthAlwaysHealthy ==
    \A i \in Slots : Answered(i, "/health") =>
        /\ req[i].handler = "health_check"
        /\ req[i].result.status = "healthy"
        /\ req[i].result.version = "1.0.0"

\* a GET /health answered after another request, with the clock set back
\* below the startup time
C3_Witness ==
    \E i \in Slots :
        /\ Answered(i, "/health")
        /\ req[i].after # {}
        /\ TimeLess(req[i].now, startup_time)

\* C4: every answered GET / has the welcome message with its trailing space
\* and version "1.0.0".
C4_RootMessageFixed ==
    \A i \in Slots : Answered(i, "/") =>
        /\ req[i].handler = "root"
        /\ req[i].result.message = "Welcome to FastAPI with Alpine Docker! "
        /\ req[i].result.version = "1.0.0"

\* a GET / answered after another request
C4_Witness ==
    \E i \in Slots : Answered(i, "/") /\ req[i].after # {}

\* C5: every answered GET /api/info carries exactly the eight fixed keys and
\* values, whatever the clock and the startup time.
C5_InfoFixed ==
    \A i \in Slots : Answered(i, "/api/info") =>
        /\ req[i].handler = "info"
        /\ DOMAIN req[i].result =
              {"name", "version", "framework", "python_version", "server",
               "base_image", "docs", "redoc"}
        /\ req[i].result.name = "FastAPI Demo API"
        /\ req[i].result.version = "1.0.0"
        /\ req[i].result.framework = "FastAPI"
        /\ req[i].result.python_version = "3.11"
        /\ req[i].result.server = "uvicorn"
        /\ req[i].result.base_image = "python:3.11-alpine"
        /\ req[i].result.docs = "/docs"
        /\ req[i].result.redoc = "/redoc"

\* two GET /api/info answered at different clock values
C5_Witness ==
    \E i, j \in Slots :
        /\ i # j /\ Answered(i, "/api/info") /\ Answered(j, "/api/info")
        /\ Before(i, j)
        /\ clock # startup_time

\* the field of an endpoint's response that follows the clock
Varying(h) == IF h = "root" THEN {"timestamp"}
              ELSE IF h = "health_check" THEN {"uptime"} ELSE {}

Shape(h) == IF h = "info" THEN DOMAIN info_result ELSE response_model[h]

\* C7: each of GET /, GET /api/info and GET /health is matched by exactly one
\* route, and its handler always answers 200 with a value of its declared shape.
C7_OneHandlerAlways200 ==
    /\ Cardinality(FullMatches("GET", "/")) = 1
    /\ Cardinality(FullMatches("GET", "/api/info")) = 1
    /\ Cardinality(FullMatches("GET", "/health")) = 1
    /\ \A i \in Slots : \A p \in {"/", "/api/info", "/health"} :
          (req[i].pc # "idle" /\ req[i].method = "GET" /\ req[i].path = p) =>
             /\ req[i].handler =
                   (IF p = "/" THEN "root"
                    ELSE IF p = "/api/info" THEN "info" ELSE "health_check")
             /\ Done(i) => /\ req[i].status = 200
                           /\ DOMAIN req[i].result = Shape(req[i].handler)

\* a GET /health answered 200 with the clock set back below the startup time,
\* after a GET of another of the three paths was answered 200
C7_Witness ==
    \E i, j \in Slots :
        /\ Answered(i, "/health") /\ req[i].status = 200
        /\ TimeLess(req[i].now, startup_time)
        /\ Before(j, i) /\ req[j].path \in {"/", "/api/info"} /\ req[j].status = 200

\* C8: startup_time is set once, by the load, before any request is handled,
\* and no later step changes it.
C8_StartupTimeSetOnce ==
    [][ /\ (~loaded /\ loaded') => startup_time' = clock
        /\ ~loaded => \A i \in Slots : req[i].pc = "idle"
        /\ loaded => (loaded' /\ startup_time' = startup_time) ]_vars

\* all requests answered, by the three handlers, at a clock value other than
\* the one captured at load
C8_Witness ==
    /\ loaded
    /\ clock # startup_time
    /\ \A i \in Slots : Done(i)
    /\ \E i \in Slots : Handled(i, "health_check")
    /\ \E i \in Slots : req[i].handler \in {"root", "info"}

\* the response a request to handler h gets when it runs alone at clock value
\* t in a process whose startup time is s
Alone(h, t, s) ==
    IF h = "root" THEN
        [message |-> "Welcome to FastAPI with Alpine Docker! ",
         version |-> "1.0.0", timestamp |-> isoformat(t)]
    ELSE IF h = "health_check" THEN
        [status |-> "healthy", version |-> "1.0.0", uptime |-> TimeDiff(t, s)]
    ELSE info_result

\* C9: whatever other requests are in flight, a handler step answers its own
\* request with the response it would give alone at the clock value it read,
\* and changes neither another request nor the shared startup time.
C9_NoInterference ==
    [][ \A i \in Slots :
          (req[i].pc = "routed" /\ req'[i].pc = "done"
              /\ req[i].handler \in {"root", "info", "health_check"}) =>
            /\ req'[i].result = Alone(req[i].handler, clock, startup_time)
            /\ \A j \in Slots \ {i} : req'[j] = req[j]
            /\ startup_time' = startup_time ]_vars

\* two requests of the same clock-reading handler whose lifetimes overlapped
\* (the second arrived before the first was answered), answered at different
\* clock values
C9_Witness ==
    \E i, j \in Slots :
        /\ i # j /\ Done(i) /\ Done(j)
        /\ ~Before(i, j) /\ ~Before(j, i)
        /\ req[i].handler = req[j].handler
        /\ req[i].handler \in {"root", "health_check"}
        /\ req[i].now # req[j].now

====
